---- MODULE Spec2Model ----
(***************************************************************************)
(* Event processing and alerting pipeline of the threat-detection system.  *)
(*                                                                         *)
(*   src/src/alerting/alert_manager.py      AlertManager                   *)
(*   src/src/real_time/stream_processor.py  StreamProcessor                *)
(*   src/src/data_collection/network_monitor.py  NetworkMonitor (producer) *)
(*   src/main.py                            lifespan (assembly)            *)
(*                                                                         *)
(* Time is in whole seconds.  Scores are in hundredths (0.8 is 80).        *)
(* asyncio tasks are interleaved at their awaits: a handler that awaits    *)
(* several store commands is a chain of steps ordered by a program         *)
(* counter; code between two awaits is one atomic step.                    *)
(***************************************************************************)
EXTENDS Integers, Sequences, FiniteSets, Bags, TLC

VARIABLES
    now,            \* time.time()
    settings,       \* config/settings.py Settings, fixed at start-up
    \* ---- AlertManager ----
    am_running,     \* AlertManager.is_running
    alert_queue,    \* AlertManager.alert_queue (asyncio.Queue, unbounded)
    sent_alerts,    \* AlertManager.sent_alerts: alert id -> time last sent
    alert_rules,    \* AlertManager.alert_rules
    nextCleanup,    \* wake-up time of _cleanup_loop's sleep
    created,        \* number of create_alert calls so far
    ruleOps,        \* number of add_alert_rule / remove_alert_rule calls so far
    history,        \* history: {id, time, sent} of every run of _process_alert
    last,           \* history: the most recent run of _process_alert
    \* ---- the store (Redis) ----
    recent_packets, \* list, newest first
    recent_metrics, \* list, newest first
    recent_events,  \* list, newest first
    threat_events,  \* list, newest first
    processed_keys, \* processed:<id> -> [expires, value]
    \* ---- StreamProcessor ----
    sp_running,     \* StreamProcessor.is_running
    detector,       \* what ThreatDetector holds: which models are fitted
    callbacks,      \* StreamProcessor.callbacks
    stats,          \* StreamProcessor.stats
    sp_pc,          \* where _main_processing_loop stands
    sp_batch,       \* packets of the current poll still to be looked at
    sp_metrics,     \* latest_metrics of the current poll
    sp_event,       \* the ProcessedEvent being stored
    \* ---- NetworkMonitor ----
    nm_running,     \* NetworkMonitor.is_running
    packet_queue,   \* NetworkMonitor.packet_queue
    metrics_queue,  \* NetworkMonitor.metrics_queue
    nm_pc,          \* where _data_processing_loop stands
    nm_item,        \* the packet or metrics record being stored
    captured,       \* number of packets captured so far
    collected,      \* number of metrics records collected so far
    \* ---- history of the stream ----
    notified,       \* the callbacks called for the last finished event
    threat_stats,   \* the store's threat_stats key
    agg,            \* where _data_aggregation_loop stands, and its last run
    scored,         \* the last event scored on its own
    \* ---- life cycle ----
    redis,          \* whether the store answers: "up" or "down"
    tasks,          \* bag of the loops created with create_task, still alive
    life,           \* per component: "new", "raised", "started", "stopped"
    writes,         \* every write of processed:<id>, recent_events, threat_events
    seen            \* per packet id the processing loop looked at: when last, once or more

amVars == <<am_running, alert_queue, sent_alerts, alert_rules, nextCleanup,
            created, ruleOps, history, last>>

storeVars == <<recent_packets, recent_metrics, recent_events, threat_events,
               processed_keys>>

spVars == <<sp_running, detector, callbacks, stats, sp_pc, sp_batch,
            sp_metrics, sp_event>>

nmVars == <<nm_running, packet_queue, metrics_queue, nm_pc, nm_item,
            captured, collected>>

lifeVars == <<redis, tasks, life>>

auxVars == <<threat_stats, agg, scored, lifeVars>>

streamVars == <<storeVars, spVars, nmVars, notified, auxVars, writes, seen>>

vars == <<now, settings, amVars, streamVars>>

(***************************************************************************)
(* Bounds of the model.                                                    *)
(***************************************************************************)
\* Calls made to the manager's API (create_alert, add_alert_rule,
\* remove_alert_rule) in one run.
MaxCalls == 3

\* Live instances of one loop: start() is not called again while a loop
\* has this many.
MaxLoops == 2

\* Events the stream processor finishes before its last poll, where a
\* store that does not answer makes it process packets again.
MaxEvents == 2

\* The instants the clock visits.
AlertInstants == {0, 299, 300, 301, 3600, 3601}
StreamInstants == {0, 3600}

\* What a caller may register with StreamProcessor.add_callback.
CallbackKinds == {"create_alert", "subscriber", "raising"}

Min(a, b) == IF a < b THEN a ELSE b

(***************************************************************************)
(* AlertManager: rules                                                     *)
(***************************************************************************)
\* A condition string is the set of the clauses _evaluate_condition looks
\* for with `in` that occur in it.
HighRule ==
    [name |-> "High Threat Detection", condition |-> {"threat_score > 0.8"},
     severity |-> "critical", channels |-> <<"email", "log">>,
     cooldown |-> 300, enabled |-> TRUE]
MediumRule ==
    [name |-> "Medium Threat Detection", condition |-> {"threat_score > 0.6"},
     severity |-> "high", channels |-> <<"log">>,
     cooldown |-> 600, enabled |-> TRUE]
SuspiciousRule ==
    [name |-> "Suspicious Activity", condition |-> {"threat_score > 0.4"},
     severity |-> "medium", channels |-> <<"log">>,
     cooldown |-> 1800, enabled |-> TRUE]
SystemRule ==
    [name |-> "System Resource Alert",
     condition |-> {"cpu_percent > 90", "memory_percent > 90"},
     severity |-> "high", channels |-> <<"email", "log">>,
     cooldown |-> 900, enabled |-> TRUE]

_initialize_alert_rules == <<HighRule, MediumRule, SuspiciousRule, SystemRule>>

\* Rules a caller may hand to add_alert_rule.
MemoryWebhookRule ==
    [name |-> "Memory Webhook", condition |-> {"memory_percent > 90"},
     severity |-> "high", channels |-> <<"webhook", "log">>,
     cooldown |-> 300, enabled |-> TRUE]
MemoryDisabledRule ==
    [name |-> "Memory Disabled", condition |-> {"memory_percent > 90"},
     severity |-> "low", channels |-> <<"log">>,
     cooldown |-> 300, enabled |-> FALSE]
WebhookOnlyRule ==
    [name |-> "Webhook Only", condition |-> {"memory_percent > 90"},
     severity |-> "high", channels |-> <<"webhook">>,
     cooldown |-> 300, enabled |-> TRUE]
RulePool == {MemoryWebhookRule, MemoryDisabledRule, WebhookOnlyRule}

\* ProcessedEvents a caller may hand to create_alert.
\* The fields of a ProcessedEvent that create_alert and the rules read;
\* is_threat is what detect_threat set it to.
AlertEvent(ts, score, cpu, mem) ==
    [timestamp |-> ts,
     threat_result |-> [is_threat |-> score > settings.threat_threshold,
                        threat_score |-> score],
     metrics_data |-> [cpu_percent |-> cpu, memory_percent |-> mem]]

AlertEvents ==
    {AlertEvent(11, 85, 50, 50), AlertEvent(12, 30, 50, 95),
     AlertEvent(13, 30, 50, 50), AlertEvent(14, 80, 50, 50)}

\* What the webhook endpoint answers: an HTTP status, or 0 when requests.post
\* raises (timeout, connection refused).
WebhookResponses == {0, 200, 204, 500}

_evaluate_condition(condition, alert) ==
    IF "threat_score > 0.8" \in condition THEN alert.threat_score > 80
    ELSE IF "threat_score > 0.6" \in condition THEN alert.threat_score > 60
    ELSE IF "threat_score > 0.4" \in condition THEN alert.threat_score > 40
    ELSE IF "cpu_percent > 90" \in condition THEN alert.cpu_percent > 90
    ELSE IF "memory_percent > 90" \in condition THEN alert.memory_percent > 90
    ELSE FALSE

\* Index in `rules` of the first rule whose condition holds, 0 for None.
RECURSIVE FirstMatch(_, _, _)
FirstMatch(rules, alert, i) ==
    IF i > Len(rules) THEN 0
    ELSE IF _evaluate_condition(rules[i].condition, alert) THEN i
    ELSE FirstMatch(rules, alert, i + 1)

_find_matching_rule(rules, alert) == FirstMatch(rules, alert, 1)

\* Variants of _should_send_alert: without the cooldown test; sending when
\* no rule matches.
ShouldSendNoCooldown(rules, sent, alert, t) ==
    LET r == _find_matching_rule(rules, alert) IN
    IF r = 0 \/ ~rules[r].enabled THEN FALSE ELSE TRUE

ShouldSendNoRule(rules, sent, alert, t) ==
    LET r == _find_matching_rule(rules, alert) IN
    IF r = 0 THEN TRUE
    ELSE IF ~rules[r].enabled THEN FALSE
    ELSE IF alert.id \in DOMAIN sent /\ t - sent[alert.id] < rules[r].cooldown
         THEN FALSE
    ELSE TRUE

_should_send_alert(rules, sent, alert, t) ==
    LET r == _find_matching_rule(rules, alert) IN
    IF r = 0 \/ ~rules[r].enabled THEN FALSE
    ELSE IF alert.id \in DOMAIN sent /\ t - sent[alert.id] < rules[r].cooldown
         THEN FALSE
    ELSE TRUE

(***************************************************************************)
(* AlertManager: channels.  An outcome is "delivered", "skipped" (the      *)
(* channel is not configured: the function returns at once) or "failed"    *)
(* (logged with logger.error).  No channel function lets an exception out. *)
(***************************************************************************)
_send_email_alert(cfg) ==
    IF ~cfg.alert_email_enabled THEN "skipped" ELSE "delivered"

_send_slack_alert(cfg) ==
    IF ~cfg.alert_slack_enabled THEN "skipped" ELSE "delivered"

_send_webhook_alert(cfg, resp) ==
    IF ~cfg.alert_webhook_url THEN "skipped"
    ELSE IF resp = 0 THEN "failed"
    ELSE IF resp = 200 THEN "delivered"
    ELSE "failed"

_send_log_alert == "delivered"

SendChannel(cfg, channel, resp) ==
    [channel |-> channel,
     status  |-> IF channel = "webhook" THEN resp ELSE 0,
     outcome |-> CASE channel = "email"   -> _send_email_alert(cfg)
                   [] channel = "slack"   -> _send_slack_alert(cfg)
                   [] channel = "webhook" -> _send_webhook_alert(cfg, resp)
                   [] channel = "log"     -> _send_log_alert]

\* Variant of _send_alert: the loop over the channels ends at the first
\* channel that fails.
RECURSIVE UntilFailure(_)
UntilFailure(tries) ==
    IF tries = <<>> THEN <<>>
    ELSE IF Head(tries).outcome = "failed" THEN <<Head(tries)>>
    ELSE <<Head(tries)>> \o UntilFailure(Tail(tries))

SendAlertStopOnFailure(rules, cfg, alert, resp) ==
    LET r == _find_matching_rule(rules, alert) IN
    IF r = 0 THEN <<>>
    ELSE UntilFailure([i \in 1..Len(rules[r].channels) |->
                          SendChannel(cfg, rules[r].channels[i], resp)])

\* The attempts _send_alert makes, in order: one per channel of the rule.
_send_alert(rules, cfg, alert, resp) ==
    LET r == _find_matching_rule(rules, alert) IN
    IF r = 0 THEN <<>>
    ELSE [i \in 1..Len(rules[r].channels) |->
              SendChannel(cfg, rules[r].channels[i], resp)]

(***************************************************************************)
(* AlertManager: operations                                                *)
(***************************************************************************)
Put(sent, id, t) ==
    [i \in DOMAIN sent \cup {id} |-> IF i = id THEN t ELSE sent[i]]

NoRun == [n |-> 0]

\* The loops each start() creates.
AMLoops == {"alert_processing", "cleanup"}
SPLoops == {"main_processing", "data_aggregation", "performance_monitoring"}
NMLoops == {"packet_capture", "metrics_collection", "data_processing"}

\* The loops of a component can be created once more.
Startable(loops) == \A loop \in loops : CopiesIn(loop, tasks) < MaxLoops

\* What a start() or stop() call leaves alone besides its own component.
AMFrame ==
    UNCHANGED <<now, settings, storeVars, spVars, nmVars, notified,
                threat_stats, agg, scored, redis, writes, seen>>

AMStart ==
    /\ ~am_running
    /\ am_running' = TRUE
    /\ nextCleanup' = now
    /\ Startable(AMLoops)
    /\ tasks' = tasks (+) SetToBag(AMLoops)
    /\ life' = [life EXCEPT !.am = "started"]
    /\ AMFrame
    /\ UNCHANGED <<alert_queue, sent_alerts, alert_rules,
                   created, ruleOps, history, last>>

AMStop ==
    /\ am_running
    /\ am_running' = FALSE
    /\ life' = [life EXCEPT !.am = "stopped"]
    /\ AMFrame
    /\ UNCHANGED <<tasks, alert_queue, sent_alerts, alert_rules,
                   nextCleanup, created, ruleOps, history, last>>

_determine_alert_severity(score) ==
    IF score >= 80 THEN "critical"
    ELSE IF score >= 60 THEN "high"
    ELSE IF score >= 40 THEN "medium"
    ELSE "low"

\* create_alert(event): the queue after the call at time t.  The call
\* returns None for an event that is no threat; otherwise the alert is
\* built and put on the queue.
create_alert(queue, event, t) ==
    IF ~event.threat_result.is_threat
    THEN queue
    ELSE Append(queue,
            [id |-> <<t, event.timestamp>>,
             timestamp |-> t,
             severity |-> _determine_alert_severity(
                              event.threat_result.threat_score),
             threat_score |-> event.threat_result.threat_score,
             cpu_percent |-> event.metrics_data.cpu_percent,
             memory_percent |-> event.metrics_data.memory_percent,
             sent |-> FALSE,
             retry_count |-> 0])

\* A caller of the manager's API calls create_alert.
CallCreateAlert(event) ==
    /\ created + ruleOps < MaxCalls
    /\ created' = created + 1
    /\ alert_queue' = create_alert(alert_queue, event, now)
    /\ UNCHANGED <<streamVars, now, settings, am_running, sent_alerts, alert_rules,
                   nextCleanup, ruleOps, history, last>>

CreateAlert == \E event \in AlertEvents : CallCreateAlert(event)

\* The events created while the clock runs: a threat that the default
\* rules match, and one that is no threat.
TimedEvents == {e \in AlertEvents : e.timestamp \in {11, 13}}

CreateTimedAlert == \E event \in TimedEvents : CallCreateAlert(event)

\* One iteration of _alert_processing_loop that finds an alert on the queue:
\* _process_alert runs to its end without a suspension (no channel function
\* awaits), and nothing inside its try block raises, so its except branch
\* (retry_count += 1, requeue below 3) is never taken.
_process_alert(alert, resp) ==
    LET send == _should_send_alert(alert_rules, sent_alerts, alert, now)
        r    == _find_matching_rule(alert_rules, alert)
        tries == IF send THEN _send_alert(alert_rules, settings, alert, resp)
                 ELSE <<>>
    IN
    /\ sent_alerts' = IF send THEN Put(sent_alerts, alert.id, now)
                      ELSE sent_alerts
    /\ history' = history \cup {[id |-> alert.id, time |-> now, sent |-> send]}
    /\ last' = [n |-> 1,
                alert |-> [alert EXCEPT !.sent = send],
                time |-> now,
                rule |-> r,
                enabled |-> r # 0 /\ alert_rules[r].enabled,
                cooldown |-> IF r = 0 THEN 0 ELSE alert_rules[r].cooldown,
                channels |-> IF r = 0 THEN <<>> ELSE alert_rules[r].channels,
                dispatched |-> send,
                attempts |-> tries,
                earlier |-> {d.time : d \in {e \in history :
                                                  e.id = alert.id /\ e.sent}},
                requeued |-> FALSE]

\* Variant of the alert loop that puts the alert it has processed back on
\* the queue.
ProcessAlertRequeue ==
    /\ am_running
    /\ alert_queue # <<>>
    /\ \E resp \in WebhookResponses : _process_alert(Head(alert_queue), resp)
    /\ alert_queue' = Append(Tail(alert_queue), last'.alert)
    /\ UNCHANGED <<streamVars, now, settings, am_running, alert_rules, nextCleanup,
                   created, ruleOps>>

ProcessAlert ==
    /\ am_running
    /\ alert_queue # <<>>
    /\ \E resp \in WebhookResponses : _process_alert(Head(alert_queue), resp)
    /\ alert_queue' = Tail(alert_queue)
    /\ UNCHANGED <<streamVars, now, settings, am_running, alert_rules, nextCleanup,
                   created, ruleOps>>

\* One iteration of _alert_processing_loop that finds the queue empty.
AlertLoopIdle ==
    /\ am_running
    /\ alert_queue = <<>>
    /\ UNCHANGED vars

\* Variant of the sweep that also drops the entries sent exactly an hour
\* ago.
CleanupFromTheHour ==
    /\ am_running
    /\ now >= nextCleanup
    /\ sent_alerts' = [i \in {j \in DOMAIN sent_alerts :
                                  ~(sent_alerts[j] <= now - 3600)}
                          |-> sent_alerts[i]]
    /\ nextCleanup' = now + 3600
    /\ UNCHANGED <<streamVars, now, settings, am_running, alert_queue, alert_rules,
                   created, ruleOps, history, last>>

\* One iteration of _cleanup_loop: entries sent before now - 3600 go.
_cleanup_loop ==
    /\ am_running
    /\ now >= nextCleanup
    /\ sent_alerts' = [i \in {j \in DOMAIN sent_alerts :
                                  ~(sent_alerts[j] < now - 3600)}
                          |-> sent_alerts[i]]
    /\ nextCleanup' = now + 3600
    /\ UNCHANGED <<streamVars, now, settings, am_running, alert_queue, alert_rules,
                   created, ruleOps, history, last>>

\* while self.is_running: the alert loop ends when it finds the flag
\* false after its sleep of 0.1 s.
AlertLoopExit ==
    /\ BagIn("alert_processing", tasks)
    /\ ~am_running
    /\ tasks' = tasks (-) SetToBag({"alert_processing"})
    /\ AMFrame
    /\ UNCHANGED <<am_running, life, alert_queue, sent_alerts, alert_rules,
                   nextCleanup, created, ruleOps, history, last>>

\* The cleanup loop finds the flag false when its sleep of an hour is over.
CleanupLoopExit ==
    /\ BagIn("cleanup", tasks)
    /\ ~am_running
    /\ now >= nextCleanup
    /\ tasks' = tasks (-) SetToBag({"cleanup"})
    /\ AMFrame
    /\ UNCHANGED <<am_running, life, alert_queue, sent_alerts, alert_rules,
                   nextCleanup, created, ruleOps, history, last>>

\* Rules are configured before the manager is first started.
Configuring == ~am_running /\ created = 0 /\ now = 0

add_alert_rule ==
    /\ Configuring
    /\ created + ruleOps < MaxCalls
    /\ \E rule \in RulePool :
          /\ \A i \in 1..Len(alert_rules) : alert_rules[i].name # rule.name
          /\ alert_rules' = Append(alert_rules, rule)
    /\ ruleOps' = ruleOps + 1
    /\ UNCHANGED <<streamVars, now, settings, am_running, alert_queue, sent_alerts,
                   nextCleanup, created, history, last>>

RECURSIVE Without(_, _)
Without(rules, name) ==
    IF rules = <<>> THEN <<>>
    ELSE IF Head(rules).name = name THEN Without(Tail(rules), name)
    ELSE <<Head(rules)>> \o Without(Tail(rules), name)

remove_alert_rule ==
    /\ Configuring
    /\ created + ruleOps < MaxCalls
    /\ \E i \in 1..Len(alert_rules) :
          alert_rules' = Without(alert_rules, alert_rules[i].name)
    /\ ruleOps' = ruleOps + 1
    /\ UNCHANGED <<streamVars, now, settings, am_running, alert_queue, sent_alerts,
                   nextCleanup, created, history, last>>

AlertTick ==
    /\ \E t \in AlertInstants : t > now /\ now' = t
    /\ UNCHANGED <<settings, amVars, streamVars>>

(***************************************************************************)
(* The store: Redis lists and keys.  A list is its tracked entries, newest *)
(* first, followed by `older` entries that were in it at start-up.         *)
(***************************************************************************)
RecentEventsCap == 1000
ThreatEventsCap == 500
RecentPacketsCap == 1000
RecentMetricsCap == 100
ProcessedTTL == 3600
PacketWindow == 10
MetricsWindow == 5

EmptyList == [items |-> <<>>, older |-> 0]

LLen(list) == Len(list.items) + list.older

LPush(list, x) == [list EXCEPT !.items = <<x>> \o @]

\* LTRIM key 0 n-1: keep the n newest entries.
LTrim(list, n) ==
    IF Len(list.items) >= n
    THEN [items |-> SubSeq(list.items, 1, n), older |-> 0]
    ELSE [list EXCEPT !.older = Min(@, n - Len(list.items))]

\* LRANGE key 0 n-1 of a list that holds tracked entries only.
LRange(list, n) == SubSeq(list.items, 1, Min(Len(list.items), n))

\* EXISTS key at time t: the key was set and its TTL has not run out.
Exists(keys, id, t) == id \in DOMAIN keys /\ t < keys[id].expires

SetEx(keys, id, ttl, value, t) ==
    [k \in DOMAIN keys \cup {id} |->
        IF k = id THEN [expires |-> t + ttl, value |-> value] ELSE keys[k]]

(***************************************************************************)
(* ThreatDetector.detect_threat, as far as the pipeline reads its result.  *)
(* detector = "unfitted": no model was ever fitted or loaded, and          *)
(*     decision_function of the IsolationForest raises: the except branch  *)
(*     returns the fallback result;                                        *)
(* detector = "heuristic": the anomaly model is fitted, is_trained is      *)
(*     false: _simple_threat_detection scores, averaged with 0.5;          *)
(* detector = "trained": is_trained is true: the classifier's probability  *)
(*     and the network's prediction are averaged.                          *)
(***************************************************************************)
DetectorModes == {"unfitted", "heuristic", "trained"}

\* (classifier probability, deep-learning prediction) of a trained detector.
ModelOutputs == {<<10, 20>>, <<90, 80>>}

\* Python's None, for the ports of a packet that is neither TCP nor UDP.
None == -1

\* dict.get(key, default): the default only when the key is absent.
Get(d, key, default) == IF key \in DOMAIN d THEN d[key] ELSE default

\* An IPv4 address is its four numbers; the addresses of the model start
\* below 128, so that the encoding stays within 32-bit signed integers.
_ip_to_numeric(ip) ==
    IF Len(ip) = 4
    THEN ip[1] * 16777216 + ip[2] * 65536 + ip[3] * 256 + ip[4]
    ELSE 0

_is_well_known_port(port) == 0 <= port /\ port <= 1023

\* The keys of the dict extract_network_features builds, and of the dict
\* its except branch returns instead.
NetworkFeatureNames ==
    {"packet_size", "src_port", "dst_port", "is_tcp", "is_udp", "is_icmp",
     "src_ip_numeric", "dst_ip_numeric", "is_well_known_port",
     "is_high_port", "packet_ratio", "port_difference"}

DefaultNetworkNames ==
    {"feature_0", "feature_1", "feature_2", "feature_3", "feature_4",
     "feature_5", "feature_6", "feature_7", "feature_8", "feature_9",
     "feature_10", "feature_11", "feature_12", "feature_13", "feature_14",
     "feature_15", "feature_16", "feature_17", "feature_18", "feature_19"}

\* The same for extract_system_features.
SystemFeatureNames ==
    {"cpu_percent", "memory_percent", "disk_usage", "bytes_sent",
     "bytes_recv", "packets_sent", "packets_recv", "active_connections",
     "network_ratio", "packet_ratio", "resource_utilization"}

DefaultSystemNames ==
    {"sys_feature_0", "sys_feature_1", "sys_feature_2", "sys_feature_3",
     "sys_feature_4", "sys_feature_5", "sys_feature_6", "sys_feature_7",
     "sys_feature_8", "sys_feature_9", "sys_feature_10", "sys_feature_11",
     "sys_feature_12", "sys_feature_13", "sys_feature_14", "sys_feature_15",
     "sys_feature_16", "sys_feature_17", "sys_feature_18", "sys_feature_19"}

\* What the except branch of extract_network_features returns: twenty
\* features named feature_0 .. feature_19, all 0.0, so that every feature
\* read by name afterwards is 0.
DefaultNetworkFeatures ==
    [ok |-> FALSE, keys |-> DefaultNetworkNames,
     packet_size |-> 0, src_port |-> 0, dst_port |-> 0,
     is_tcp |-> 0, is_udp |-> 0, is_icmp |-> 0,
     src_ip_numeric |-> 0, dst_ip_numeric |-> 0,
     is_well_known_port |-> 0, is_high_port |-> 0,
     packet_ratio |-> 0, port_difference |-> 0]

\* extract_network_features: float(None) raises, and the one try block
\* around the whole extraction replaces every feature by the defaults.
\* packet_ratio is in hundredths.
extract_network_features(packet_data) ==
    LET size == Get(packet_data, "packet_size", 0)
        sport == Get(packet_data, "src_port", 0)
        dport == Get(packet_data, "dst_port", 0)
        proto == Get(packet_data, "protocol", 0)
    IN IF sport = None \/ dport = None
       THEN DefaultNetworkFeatures
       ELSE [ok |-> TRUE, keys |-> NetworkFeatureNames,
             packet_size |-> size, src_port |-> sport, dst_port |-> dport,
             is_tcp |-> IF proto = 6 THEN 1 ELSE 0,
             is_udp |-> IF proto = 17 THEN 1 ELSE 0,
             is_icmp |-> IF proto = 1 THEN 1 ELSE 0,
             src_ip_numeric |->
                 _ip_to_numeric(Get(packet_data, "src_ip", <<0, 0, 0, 0>>)),
             dst_ip_numeric |->
                 _ip_to_numeric(Get(packet_data, "dst_ip", <<0, 0, 0, 0>>)),
             is_well_known_port |->
                 IF _is_well_known_port(dport) THEN 1 ELSE 0,
             is_high_port |-> IF dport > 1024 THEN 1 ELSE 0,
             packet_ratio |-> (size * 100) \div 1500,
             port_difference |->
                 IF sport > dport THEN sport - dport ELSE dport - sport]

\* What the except branch of extract_system_features returns: twenty
\* features named sys_feature_0 .. sys_feature_19, all 0.0.
DefaultSystemFeatures ==
    [ok |-> FALSE, keys |-> DefaultSystemNames,
     cpu_percent |-> 0, memory_percent |-> 0, disk_usage |-> 0,
     bytes_sent |-> 0, bytes_recv |-> 0,
     packets_sent |-> 0, packets_recv |-> 0,
     active_connections |-> 0, network_ratio |-> 0, packet_ratio |-> 0,
     resource_utilization |-> 0]

\* metrics_data.get('network_io', {}): the counters of an absent record
\* are read as 0.
NoNetworkIO ==
    [bytes_sent |-> 0, bytes_recv |-> 0, packets_sent |-> 0,
     packets_recv |-> 0]

\* extract_system_features.  float(None) raises here too, inside the one
\* try block of the function.  The two ratios are in hundredths.
extract_system_features(metrics_data) ==
    LET cpu == Get(metrics_data, "cpu_percent", 0)
        mem == Get(metrics_data, "memory_percent", 0)
        disk == Get(metrics_data, "disk_usage", 0)
        conns == Get(metrics_data, "active_connections", 0)
        network_io == Get(metrics_data, "network_io", NoNetworkIO)
    IN IF None \in {cpu, mem, disk, conns}
       THEN DefaultSystemFeatures
       ELSE [ok |-> TRUE, keys |-> SystemFeatureNames,
             cpu_percent |-> cpu, memory_percent |-> mem,
             disk_usage |-> disk,
             bytes_sent |-> network_io.bytes_sent,
             bytes_recv |-> network_io.bytes_recv,
             packets_sent |-> network_io.packets_sent,
             packets_recv |-> network_io.packets_recv,
             active_connections |-> conns,
             network_ratio |->
                 (network_io.bytes_sent * 100)
                     \div (network_io.bytes_recv + 1),
             packet_ratio |->
                 (network_io.packets_sent * 100)
                     \div (network_io.packets_recv + 1),
             resource_utilization |-> (cpu + mem + disk) \div 3]

\* all_features = {**network_features, **system_features} in
\* detect_threat: one entry per key, and for a key of both dicts the value
\* of the second.
all_features(network, system) ==
    [k \in network.keys \cup system.keys |->
        IF k \in system.keys
        THEN (IF system.ok THEN system[k] ELSE 0)
        ELSE (IF network.ok THEN network[k] ELSE 0)]

\* The width of feature_vector in detect_threat: one column per key of
\* {**network_features, **system_features}, padded to InputWidth when
\* there are fewer and left as it is when there are more.
InputWidth == 20

feature_vector(network, system) ==
    LET n == Cardinality(network.keys \cup system.keys)
    IN IF n < InputWidth THEN InputWidth ELSE n

\* The width the models are fitted on: the one of a full extraction.
FittedWidth ==
    Cardinality(NetworkFeatureNames \cup SystemFeatureNames)

_simple_threat_detection(network, system) ==
    LET a == IF network.is_high_port > 0 /\ network.packet_size > 1000
             THEN 30 ELSE 0
        b == IF system.cpu_percent > 80 THEN 20 ELSE 0
        c == IF system.memory_percent > 90 THEN 20 ELSE 0
        d == IF system.active_connections > 100 THEN 30 ELSE 0
    IN Min(a + b + c + d, 100)

_classify_threat_type(score) ==
    IF score < 30 THEN "normal"
    ELSE IF score < 60 THEN "suspicious"
    ELSE IF score < 80 THEN "potential_threat"
    ELSE "high_threat"

\* The result of the except branch of detect_threat.
FallbackResult ==
    [is_threat |-> FALSE, threat_score |-> 0, threat_type |-> "unknown"]

\* Variant of detect_threat that counts a score at the threshold a threat.
DetectAtThreshold(mode, cfg, packet, metrics, out) ==
    LET network == extract_network_features(packet)
        system == extract_system_features(metrics)
    IN IF mode = "unfitted"
          \/ feature_vector(network, system) # FittedWidth
       THEN FallbackResult
       ELSE LET threat_score == IF mode = "trained" THEN out[1]
                                ELSE _simple_threat_detection(network, system)
                dl_prediction == IF mode = "trained" THEN out[2] ELSE 50
                final == (threat_score + dl_prediction) \div 2
            IN [is_threat |-> final >= cfg.threat_threshold,
                threat_score |-> final,
                threat_type |-> _classify_threat_type(final)]

\* decision_function raises on a model that is not fitted, and on a feature
\* vector of another width than the one the model was fitted on (the
\* default features make it 31, 32 or 40 wide instead of 22).
detect_threat(mode, cfg, packet, metrics, out) ==
    LET network == extract_network_features(packet)
        system == extract_system_features(metrics)
    IN IF mode = "unfitted"
          \/ feature_vector(network, system) # FittedWidth
       THEN FallbackResult
       ELSE LET threat_score == IF mode = "trained" THEN out[1]
                                ELSE _simple_threat_detection(network, system)
                dl_prediction == IF mode = "trained" THEN out[2] ELSE 50
                final == (threat_score + dl_prediction) \div 2
            IN [is_threat |-> final > cfg.threat_threshold,
                threat_score |-> final,
                threat_type |-> _classify_threat_type(final)]

\* real_traffic_main.analyze_packet_threat, the scorer of the stand-alone
\* capture script; http is the packet's http_data, "" when it has none.
analyze_packet_threat(packet) ==
    LET dst_port == Get(packet, "dst_port", None)
        http == Get(packet, "http_data", "")
        dst_ip == Get(packet, "dst_ip", <<>>)
        backdoor == dst_port \in {4444, 5555, 6666, 7777, 8888}
        risky == dst_port \in {21, 23, 135, 139, 445}
        large == Get(packet, "packet_size", 0) > 1500
        malware == http = "malware"
        login == http = "login"
        raw == (IF backdoor THEN 80 ELSE IF risky THEN 40 ELSE 0)
               + (IF large THEN 30 ELSE 0)
               + (IF malware THEN 90 ELSE IF login THEN 50 ELSE 0)
               + (IF Len(dst_ip) = 4 /\ dst_ip[1] = 10 /\ dst_ip[2] = 0
                     /\ dst_ip[3] = 0 THEN 10 ELSE 0)
    IN [threat_score |-> Min(raw, 100),
        threat_type |->
            IF malware THEN "critical"
            ELSE IF backdoor THEN "high"
            ELSE IF risky \/ large \/ login THEN "medium"
            ELSE "normal",
        is_threat |-> raw > 70]

(***************************************************************************)
(* StreamProcessor                                                         *)
(***************************************************************************)
\* Variant of _determine_severity that reads the score alone.
SeverityByScore(threat_result) ==
    IF threat_result.threat_score < 50 THEN "medium"
    ELSE IF threat_result.threat_score < 80 THEN "high"
    ELSE "critical"

_determine_severity(threat_result) ==
    IF ~threat_result.is_threat THEN "low"
    ELSE IF threat_result.threat_score < 50 THEN "medium"
    ELSE IF threat_result.threat_score < 80 THEN "high"
    ELSE "critical"

packet_id(packet) == <<packet.timestamp, packet.src_ip, packet.dst_ip>>

\* The record _store_processed_event serialises.
event_data(event) ==
    [timestamp |-> event.timestamp,
     event_type |-> event.event_type,
     severity |-> event.severity,
     threat_result |-> event.threat_result,
     packet_data |-> event.packet_data,
     metrics_data |-> event.metrics_data]

NoEvent == [timestamp |-> -1]
NoMetrics == [timestamp |-> -1]

\* Variant of _is_already_processed that finds no key.
NeverProcessed(keys, id, t) == FALSE

_is_already_processed(keys, id, t) == Exists(keys, id, t)

\* Variant of start() that does not ping the store.
SPStartNoPing ==
    /\ ~sp_running
    /\ sp_running' = TRUE
    /\ \E mode \in DetectorModes : detector' = mode
    /\ Startable(SPLoops)
    /\ tasks' = tasks (+) SetToBag(SPLoops)
    /\ life' = [life EXCEPT !.sp = "started"]
    /\ UNCHANGED <<now, settings, threat_stats, agg, scored, redis, notified,
                   amVars, storeVars, nmVars, writes, seen,
                   callbacks, stats, sp_pc, sp_batch, sp_metrics, sp_event>>

\* start(): the ping raises when the store does not answer, and start()
\* logs and raises again, before is_running is set and before any
\* create_task; else the models are loaded (or not, when the files do not
\* exist) and the three loops are created.
SPStart ==
    /\ ~sp_running
    /\ IF redis = "down"
       THEN /\ life' = [life EXCEPT !.sp = "raised"]
            /\ UNCHANGED <<sp_running, detector, tasks>>
       ELSE /\ sp_running' = TRUE
            /\ \E mode \in DetectorModes : detector' = mode
            /\ Startable(SPLoops)
            /\ tasks' = tasks (+) SetToBag(SPLoops)
            /\ life' = [life EXCEPT !.sp = "started"]
    /\ UNCHANGED <<now, settings, threat_stats, agg, scored, redis, notified,
                   amVars, storeVars, nmVars, writes, seen,
                   callbacks, stats, sp_pc, sp_batch, sp_metrics, sp_event>>

\* stop(): is_running = False, then the client is closed.  What a command
\* issued on the closed client by an iteration still in flight does is
\* the library's affair: it is covered by the store answering or not.
SPStop ==
    /\ sp_running
    /\ sp_running' = FALSE
    /\ life' = [life EXCEPT !.sp = "stopped"]
    /\ UNCHANGED <<now, settings, threat_stats, agg, scored, redis, tasks,
                   notified, amVars, storeVars, nmVars, writes, seen,
                   detector, callbacks, stats, sp_pc, sp_batch, sp_metrics,
                   sp_event>>

add_callback ==
    /\ \E cb \in CallbackKinds :
          /\ \A i \in 1..Len(callbacks) : callbacks[i] # cb
          /\ callbacks' = Append(callbacks, cb)
    /\ UNCHANGED <<now, settings, auxVars, notified, amVars, storeVars, nmVars, writes, seen,
                   sp_running, detector, stats, sp_pc, sp_batch, sp_metrics,
                   sp_event>>

\* Variant of the main loop whose while does not test is_running.
PollRegardless ==
    /\ sp_pc = "idle"
    /\ sp_batch' = IF redis = "up" THEN LRange(recent_packets, PacketWindow)
                 ELSE <<>>
    /\ sp_pc' = "metrics"
    /\ UNCHANGED <<now, settings, auxVars, notified, amVars, storeVars, nmVars, writes, seen,
                   sp_running, detector, callbacks, stats, sp_metrics,
                   sp_event>>

\* _main_processing_loop, first await: LRANGE recent_packets 0 9; when the
\* command raises, _get_recent_packets logs and returns no packet.
_get_recent_packets ==
    /\ sp_running
    /\ sp_pc = "idle"
    /\ sp_batch' = IF redis = "up" THEN LRange(recent_packets, PacketWindow)
                 ELSE <<>>
    /\ sp_pc' = "metrics"
    /\ UNCHANGED <<now, settings, auxVars, notified, amVars, storeVars, nmVars, writes, seen,
                   sp_running, detector, callbacks, stats, sp_metrics,
                   sp_event>>

\* Second await: LRANGE recent_metrics 0 4; then _process_data_pairs starts:
\* it returns at once when there are no metrics.
_get_recent_metrics ==
    /\ sp_pc = "metrics"
    /\ LET metrics == IF redis = "up"
                      THEN LRange(recent_metrics, MetricsWindow) ELSE <<>> IN
       IF metrics = <<>>
       THEN /\ sp_pc' = "idle"
            /\ sp_batch' = <<>>
            /\ sp_metrics' = sp_metrics
       ELSE /\ sp_metrics' = metrics[1]
            /\ sp_batch' = sp_batch
            /\ sp_pc' = IF sp_batch = <<>> THEN "idle" ELSE "exists"
    /\ UNCHANGED <<now, settings, auxVars, notified, amVars, storeVars, nmVars, writes, seen,
                   sp_running, detector, callbacks, stats, sp_event>>

\* _process_data_pairs, one turn of its loop: EXISTS processed:<id>; a packet
\* already processed is skipped, another is scored and its ProcessedEvent
\* built (_process_single_event, up to its first store command).  When
\* EXISTS raises, _is_already_processed logs and returns False.
CheckPacket ==
    /\ sp_pc = "exists"
    /\ LET packet == Head(sp_batch)
           id == packet_id(packet)
       IN
       /\ seen' = [k \in DOMAIN seen \cup {id} |->
                      IF k # id THEN seen[k]
                      ELSE [last |-> now,
                            times |-> IF id \in DOMAIN seen THEN 2 ELSE 1]]
       /\ IF redis = "up" /\ _is_already_processed(processed_keys, id, now)
          THEN /\ sp_batch' = Tail(sp_batch)
               /\ sp_pc' = IF Tail(sp_batch) = <<>> THEN "idle" ELSE "exists"
               /\ sp_event' = sp_event
          ELSE /\ \E out \in ModelOutputs :
                    LET threat_result ==
                            detect_threat(detector, settings, packet,
                                          sp_metrics, out)
                    IN sp_event' =
                         [timestamp |-> now,
                          event_type |-> "network_packet",
                          threat_result |-> threat_result,
                          packet_data |-> packet,
                          metrics_data |-> sp_metrics,
                          severity |-> _determine_severity(threat_result),
                          processed |-> TRUE]
               /\ sp_batch' = sp_batch
               /\ sp_pc' = "setex"
    /\ UNCHANGED <<now, settings, auxVars, notified, amVars, storeVars, nmVars, writes,
                   sp_running, detector, callbacks, stats, sp_metrics>>

Written(key) ==
    Append(writes, [key |-> key, id |-> packet_id(sp_event.packet_data),
                    time |-> now])

\* _store_processed_event: SETEX processed:<id> 3600 <event_data>.
StoreSetex ==
    /\ sp_pc = "setex"
    /\ redis = "up"
    /\ processed_keys' = SetEx(processed_keys, packet_id(sp_event.packet_data),
                               ProcessedTTL, event_data(sp_event), now)
    /\ writes' = Written("processed")
    /\ sp_pc' = "lpush_recent"
    /\ UNCHANGED <<now, settings, auxVars, notified, amVars, nmVars, seen, recent_packets,
                   recent_metrics, recent_events, threat_events,
                   sp_running, detector, callbacks, stats, sp_batch,
                   sp_metrics, sp_event>>

\* LPUSH recent_events <event_data>.
StoreLpushRecent ==
    /\ sp_pc = "lpush_recent"
    /\ redis = "up"
    /\ recent_events' = LPush(recent_events, event_data(sp_event))
    /\ writes' = Written("recent_events")
    /\ sp_pc' = "ltrim_recent"
    /\ UNCHANGED <<now, settings, auxVars, notified, amVars, nmVars, seen, recent_packets,
                   recent_metrics, threat_events, processed_keys,
                   sp_running, detector, callbacks, stats, sp_batch,
                   sp_metrics, sp_event>>

\* The callbacks, called in registration order with the event.
RECURSIVE Notify(_, _, _, _)
Notify(cbs, queue, event, t) ==
    IF cbs = <<>> THEN queue
    ELSE Notify(Tail(cbs),
                IF Head(cbs) = "create_alert"
                THEN create_alert(queue, event, t) ELSE queue,
                event, t)

\* What calling a callback does: a subscriber may raise.
Call(cb) == IF cb = "raising" THEN "raised" ELSE "returned"

\* Variant of the callback loop that a raising callback ends.
RECURSIVE InvokedUntilRaise(_)
InvokedUntilRaise(cbs) ==
    IF cbs = <<>> THEN <<>>
    ELSE <<[callback |-> Head(cbs), outcome |-> Call(Head(cbs))]>>
         \o (IF Call(Head(cbs)) = "raised" THEN <<>>
             ELSE InvokedUntilRaise(Tail(cbs)))

\* The callback loop: each call has its own try/except, which logs.
RECURSIVE Invoked(_)
Invoked(cbs) ==
    IF cbs = <<>> THEN <<>>
    ELSE <<[callback |-> Head(cbs), outcome |-> Call(Head(cbs))]>>
         \o Invoked(Tail(cbs))

\* The rest of _process_single_event after the last store command: the
\* counters, the callbacks, and on to the next packet of the batch.
FinishEvent ==
    /\ stats' = [events_processed |-> stats.events_processed + 1,
                 threats_detected |-> stats.threats_detected +
                     (IF sp_event.threat_result.is_threat THEN 1 ELSE 0)]
    /\ alert_queue' = Notify(callbacks, alert_queue, sp_event, now)
    /\ notified' = [event |-> sp_event, invoked |-> Invoked(callbacks)]
    /\ sp_batch' = Tail(sp_batch)
    /\ sp_pc' = IF Tail(sp_batch) = <<>> THEN "idle" ELSE "exists"
    /\ UNCHANGED <<am_running, sent_alerts, alert_rules, nextCleanup, created,
                   ruleOps, history, last>>

\* Variant of _store_processed_event that pushes every event to
\* threat_events.
StoreEveryEventAsThreat ==
    /\ sp_pc = "ltrim_recent"
    /\ redis = "up"
    /\ recent_events' = LTrim(recent_events, RecentEventsCap)
    /\ sp_pc' = "lpush_threat"
    /\ UNCHANGED <<amVars, stats, sp_batch, notified>>
    /\ UNCHANGED <<now, settings, auxVars, nmVars, writes, seen, recent_packets,
                   recent_metrics, threat_events, processed_keys,
                   sp_running, detector, callbacks, sp_metrics, sp_event>>

\* LTRIM recent_events 0 999; an event that is no threat is finished.
StoreLtrimRecent ==
    /\ sp_pc = "ltrim_recent"
    /\ redis = "up"
    /\ recent_events' = LTrim(recent_events, RecentEventsCap)
    /\ IF sp_event.threat_result.is_threat
       THEN /\ sp_pc' = "lpush_threat"
            /\ UNCHANGED <<amVars, stats, sp_batch, notified>>
       ELSE FinishEvent
    /\ UNCHANGED <<now, settings, auxVars, nmVars, writes, seen, recent_packets,
                   recent_metrics, threat_events, processed_keys,
                   sp_running, detector, callbacks, sp_metrics, sp_event>>

\* LPUSH threat_events <event_data>.
StoreLpushThreat ==
    /\ sp_pc = "lpush_threat"
    /\ redis = "up"
    /\ threat_events' = LPush(threat_events, event_data(sp_event))
    /\ writes' = Written("threat_events")
    /\ sp_pc' = "ltrim_threat"
    /\ UNCHANGED <<now, settings, auxVars, notified, amVars, nmVars, seen, recent_packets,
                   recent_metrics, recent_events, processed_keys,
                   sp_running, detector, callbacks, stats, sp_batch,
                   sp_metrics, sp_event>>

\* LTRIM threat_events 0 499; the event is finished.
StoreLtrimThreat ==
    /\ sp_pc = "ltrim_threat"
    /\ redis = "up"
    /\ threat_events' = LTrim(threat_events, ThreatEventsCap)
    /\ FinishEvent
    /\ UNCHANGED <<now, settings, auxVars, nmVars, writes, seen, recent_packets,
                   recent_metrics, recent_events, processed_keys,
                   sp_running, detector, callbacks, sp_metrics, sp_event>>

StorePcs ==
    {"setex", "lpush_recent", "ltrim_recent", "lpush_threat", "ltrim_threat"}

\* Variant of the except branch that gives the rest of the batch up.
StoreRaisedEndsBatch ==
    /\ sp_pc \in StorePcs
    /\ redis = "down"
    /\ sp_batch' = <<>>
    /\ sp_pc' = "idle"
    /\ UNCHANGED <<now, settings, auxVars, nmVars, writes, seen, storeVars,
                   amVars, stats, notified,
                   sp_running, detector, callbacks, sp_metrics, sp_event>>

\* A store command of _store_processed_event raises: its except branch
\* logs, the commands after it are not issued, and _process_single_event
\* goes on with the counters and the callbacks.
StoreRaised ==
    /\ sp_pc \in StorePcs
    /\ redis = "down"
    /\ FinishEvent
    /\ UNCHANGED <<now, settings, auxVars, nmVars, writes, seen, storeVars,
                   sp_running, detector, callbacks, sp_metrics, sp_event>>

\* while self.is_running: each loop of the stream processor ends when it
\* finds the flag false at the top of its loop, after its sleep.
MainLoopExit ==
    /\ BagIn("main_processing", tasks)
    /\ ~sp_running
    /\ sp_pc = "idle"
    /\ tasks' = tasks (-) SetToBag({"main_processing"})
    /\ UNCHANGED <<now, settings, threat_stats, agg, scored, redis, life,
                   notified, amVars, storeVars, spVars, nmVars, writes, seen>>

\* One iteration of _performance_monitoring_loop: last_update and a log
\* line.
_performance_monitoring_loop ==
    /\ BagIn("performance_monitoring", tasks)
    /\ sp_running
    /\ UNCHANGED vars

PerformanceLoopExit ==
    /\ BagIn("performance_monitoring", tasks)
    /\ ~sp_running
    /\ tasks' = tasks (-) SetToBag({"performance_monitoring"})
    /\ UNCHANGED <<now, settings, threat_stats, agg, scored, redis, life,
                   notified, amVars, storeVars, spVars, nmVars, writes, seen>>

(***************************************************************************)
(* The aggregator: _data_aggregation_loop of the stream processor          *)
(***************************************************************************)
AggregateWindow == 100
StatsTTL == 3600

Severities == {"low", "medium", "high", "critical"}

CountWhere(events, keys) ==
    Cardinality({i \in 1..Len(events) : keys[i]})

\* stats_data of _aggregate_threat_stats.
Snapshot(events, t) ==
    [timestamp |-> t,
     threat_types |->
         [ty \in {events[i].threat_result.threat_type : i \in 1..Len(events)}
             |-> CountWhere(events,
                     [i \in 1..Len(events)
                         |-> events[i].threat_result.threat_type = ty])],
     severity_counts |->
         [sv \in Severities
             |-> CountWhere(events,
                     [i \in 1..Len(events) |-> events[i].severity = sv])],
     total_threats |-> Len(events)]

\* _aggregate_threat_stats, first await: LRANGE threat_events 0 99.  With
\* no threat event the run returns here; _cleanup_old_data writes nothing
\* and the loop sleeps.
AggRead ==
    /\ sp_running
    /\ agg.pc = "idle"
    /\ redis = "up"
    /\ LET events == LRange(threat_events, AggregateWindow) IN
       agg' = IF events = <<>>
              THEN [pc |-> "idle", events |-> <<>>, ran |-> TRUE,
                    empty |-> TRUE]
              ELSE [agg EXCEPT !.pc = "setex", !.events = events]
    /\ UNCHANGED <<now, settings, amVars, storeVars, spVars, nmVars,
                   notified, threat_stats, scored, lifeVars, writes, seen>>

\* Second await: SETEX threat_stats 3600 <stats_data>.
AggWrite ==
    /\ agg.pc = "setex"
    /\ redis = "up"
    /\ threat_stats' = [expires |-> now + StatsTTL,
                        value |-> Snapshot(agg.events, now)]
    /\ agg' = [pc |-> "idle", events |-> <<>>, ran |-> TRUE, empty |-> FALSE]
    /\ UNCHANGED <<now, settings, amVars, storeVars, spVars, nmVars,
                   notified, scored, lifeVars, writes, seen>>

AggregationLoopExit ==
    /\ BagIn("data_aggregation", tasks)
    /\ ~sp_running
    /\ agg.pc = "idle"
    /\ tasks' = tasks (-) SetToBag({"data_aggregation"})
    /\ UNCHANGED <<now, settings, threat_stats, agg, scored, redis, life,
                   notified, amVars, storeVars, spVars, nmVars, writes, seen>>

(***************************************************************************)
(* NetworkMonitor, the producer                                            *)
(***************************************************************************)
PacketShapes ==
    { [src_ip |-> <<10, 1, 1, 5>>, dst_ip |-> <<10, 0, 0, 9>>,
       src_port |-> 50000, dst_port |-> 4444, protocol |-> 6,
       packet_size |-> 2000],
      [src_ip |-> <<10, 1, 1, 6>>, dst_ip |-> <<10, 0, 0, 9>>,
       src_port |-> 50001, dst_port |-> 443, protocol |-> 6,
       packet_size |-> 512] }

MetricsShapes ==
    { [cpu_percent |-> 50, memory_percent |-> 50, active_connections |-> 10],
      [cpu_percent |-> 95, memory_percent |-> 95, active_connections |-> 150] }

Stamp(shape, t) ==
    [k \in DOMAIN shape \cup {"timestamp"} |->
        IF k = "timestamp" THEN t ELSE shape[k]]

\* start(): as the stream processor's, the ping first.
NMStart ==
    /\ ~nm_running
    /\ IF redis = "down"
       THEN /\ life' = [life EXCEPT !.nm = "raised"]
            /\ UNCHANGED <<nm_running, tasks>>
       ELSE /\ nm_running' = TRUE
            /\ Startable(NMLoops)
            /\ tasks' = tasks (+) SetToBag(NMLoops)
            /\ life' = [life EXCEPT !.nm = "started"]
    /\ UNCHANGED <<now, settings, threat_stats, agg, scored, redis, notified,
                   amVars, storeVars, spVars, writes, seen,
                   packet_queue, metrics_queue, nm_pc, nm_item, captured,
                   collected>>

\* stop(): is_running = False, then the client is closed.
NMStop ==
    /\ nm_running
    /\ nm_running' = FALSE
    /\ life' = [life EXCEPT !.nm = "stopped"]
    /\ UNCHANGED <<now, settings, threat_stats, agg, scored, redis, tasks,
                   notified, amVars, storeVars, spVars, writes, seen,
                   packet_queue, metrics_queue, nm_pc, nm_item, captured,
                   collected>>

\* _process_packet and _add_packet_to_queue: a captured packet is queued.
_process_packet ==
    /\ nm_running
    /\ captured + collected < MaxCalls
    /\ captured' = captured + 1
    /\ \E shape \in PacketShapes :
          packet_queue' = Append(packet_queue, Stamp(shape, now))
    /\ UNCHANGED <<now, settings, auxVars, notified, amVars, storeVars, spVars, writes, seen,
                   nm_running, metrics_queue, nm_pc, nm_item, collected>>

\* _metrics_collection_loop: a snapshot is queued.
_metrics_collection_loop ==
    /\ nm_running
    /\ captured + collected < MaxCalls
    /\ collected' = collected + 1
    /\ \E shape \in MetricsShapes :
          metrics_queue' = Append(metrics_queue, Stamp(shape, now))
    /\ UNCHANGED <<now, settings, auxVars, notified, amVars, storeVars, spVars, writes, seen,
                   nm_running, packet_queue, nm_pc, nm_item, captured>>

\* _data_processing_loop takes a packet: _process_packet_data up to its
\* SETEX packet:<timestamp>.
TakePacket ==
    /\ nm_running
    /\ nm_pc = "idle"
    /\ packet_queue # <<>>
    /\ nm_item' = Head(packet_queue)
    /\ packet_queue' = Tail(packet_queue)
    /\ nm_pc' = "lpush_packet"
    /\ UNCHANGED <<now, settings, auxVars, notified, amVars, storeVars, spVars, writes, seen,
                   nm_running, metrics_queue, captured, collected>>

\* LPUSH recent_packets <packet>.
LpushPacket ==
    /\ nm_pc = "lpush_packet"
    /\ recent_packets' = LPush(recent_packets, nm_item)
    /\ nm_pc' = "ltrim_packet"
    /\ UNCHANGED <<now, settings, auxVars, notified, amVars, spVars, writes, seen,
                   recent_metrics, recent_events, threat_events,
                   processed_keys, nm_running, packet_queue, metrics_queue,
                   nm_item, captured, collected>>

\* The loop goes on to the metrics queue: _process_metrics_data up to its
\* SETEX metrics:<timestamp>, or the sleep when the queue is empty.
ToMetrics ==
    IF metrics_queue = <<>>
    THEN /\ nm_pc' = "idle"
         /\ UNCHANGED <<metrics_queue, nm_item>>
    ELSE /\ nm_item' = Head(metrics_queue)
         /\ metrics_queue' = Tail(metrics_queue)
         /\ nm_pc' = "lpush_metrics"

\* LTRIM recent_packets 0 999.
LtrimPacket ==
    /\ nm_pc = "ltrim_packet"
    /\ recent_packets' = LTrim(recent_packets, RecentPacketsCap)
    /\ ToMetrics
    /\ UNCHANGED <<now, settings, auxVars, notified, amVars, spVars, writes, seen,
                   recent_metrics, recent_events, threat_events,
                   processed_keys, nm_running, packet_queue, captured,
                   collected>>

\* The loop finds no packet and takes a metrics record.
TakeMetrics ==
    /\ nm_running
    /\ nm_pc = "idle"
    /\ packet_queue = <<>>
    /\ metrics_queue # <<>>
    /\ ToMetrics
    /\ UNCHANGED <<now, settings, auxVars, notified, amVars, storeVars, spVars, writes, seen,
                   nm_running, packet_queue, captured, collected>>

\* LPUSH recent_metrics <metrics>.
LpushMetrics ==
    /\ nm_pc = "lpush_metrics"
    /\ recent_metrics' = LPush(recent_metrics, nm_item)
    /\ nm_pc' = "ltrim_metrics"
    /\ UNCHANGED <<now, settings, auxVars, notified, amVars, spVars, writes, seen,
                   recent_packets, recent_events, threat_events,
                   processed_keys, nm_running, packet_queue, metrics_queue,
                   nm_item, captured, collected>>

\* LTRIM recent_metrics 0 99.
LtrimMetrics ==
    /\ nm_pc = "ltrim_metrics"
    /\ recent_metrics' = LTrim(recent_metrics, RecentMetricsCap)
    /\ nm_pc' = "idle"
    /\ UNCHANGED <<now, settings, auxVars, notified, amVars, spVars, writes, seen,
                   recent_packets, recent_events, threat_events,
                   processed_keys, nm_running, packet_queue, metrics_queue,
                   nm_item, captured, collected>>

\* The clock of the stream side: an instant lasts longer than a store
\* command, so the hour passes while both loops sleep.
StreamTick ==
    /\ sp_pc = "idle"
    /\ nm_pc = "idle"
    /\ \E t \in StreamInstants : t > now /\ now' = t
    /\ UNCHANGED <<settings, amVars, streamVars>>

(***************************************************************************)
(* Specifications                                                          *)
(***************************************************************************)
DefaultSettings ==
    [alert_email_enabled |-> TRUE, alert_slack_enabled |-> FALSE,
     alert_webhook_url |-> FALSE, threat_threshold |-> 70]

SettingsChoices ==
    { DefaultSettings,
      [alert_email_enabled |-> FALSE, alert_slack_enabled |-> FALSE,
       alert_webhook_url |-> TRUE, threat_threshold |-> 20] }

AMInit ==
    /\ am_running = FALSE
    /\ alert_queue = <<>>
    /\ sent_alerts = <<>>
    /\ alert_rules = _initialize_alert_rules
    /\ nextCleanup = 0
    /\ created = 0
    /\ ruleOps = 0
    /\ history = {}
    /\ last = NoRun

NoNotify == [event |-> NoEvent, invoked |-> <<>>]
NoKey == [expires |-> -1]
NoAgg == [pc |-> "idle", events |-> <<>>, ran |-> FALSE, empty |-> FALSE]
NoScore == [mode |-> "none"]

\* The components after construction.
StreamInit ==
    /\ sp_running = FALSE
    /\ detector = "unfitted"
    /\ callbacks = <<>>
    /\ stats = [events_processed |-> 0, threats_detected |-> 0]
    /\ sp_pc = "idle"
    /\ sp_batch = <<>>
    /\ sp_metrics = NoMetrics
    /\ sp_event = NoEvent
    /\ nm_running = FALSE
    /\ packet_queue = <<>>
    /\ metrics_queue = <<>>
    /\ nm_pc = "idle"
    /\ nm_item = NoEvent
    /\ captured = 0
    /\ collected = 0
    /\ notified = NoNotify
    /\ threat_stats = NoKey
    /\ agg = NoAgg
    /\ scored = NoScore
    /\ redis = "up"
    /\ tasks = EmptyBag
    /\ life = [sp |-> "new", nm |-> "new", am |-> "new"]
    /\ writes = <<>>
    /\ seen = <<>>

\* A store nothing was written to.
FreshStore ==
    /\ recent_packets = EmptyList
    /\ recent_metrics = EmptyList
    /\ recent_events = EmptyList
    /\ threat_events = EmptyList
    /\ processed_keys = <<>>

\* A store whose event lists earlier runs have filled to their caps.
FullStore ==
    /\ recent_packets = EmptyList
    /\ recent_metrics = EmptyList
    /\ recent_events = [items |-> <<>>, older |-> RecentEventsCap]
    /\ threat_events = [items |-> <<>>, older |-> ThreatEventsCap]
    /\ processed_keys = <<>>

Init ==
    /\ now = 0
    /\ settings \in SettingsChoices
    /\ AMInit
    /\ StreamInit
    /\ FreshStore

AlertInit ==
    /\ now = 0
    /\ settings = DefaultSettings
    /\ AMInit
    /\ StreamInit
    /\ FreshStore

\* The manager with its default rules, over time.
AlertNext ==
    \/ AMStart
    \/ AMStop
    \/ CreateTimedAlert
    \/ ProcessAlert
    \/ AlertLoopIdle
    \/ _cleanup_loop
    \/ AlertTick

AlertSpec == AlertInit /\ [][AlertNext]_vars

\* The manager with rules added and removed, at one instant.
RuleNext ==
    \/ AMStart
    \/ AMStop
    \/ CreateAlert
    \/ ProcessAlert
    \/ AlertLoopIdle
    \/ _cleanup_loop
    \/ add_alert_rule
    \/ remove_alert_rule

RuleSpec == Init /\ [][RuleNext]_vars

\* The stream processor and the producer against the store.
SInit ==
    /\ now = 0
    /\ settings = DefaultSettings
    /\ AMInit
    /\ StreamInit
    /\ FullStore

StreamNext ==
    \/ NMStart
    \/ _process_packet
    \/ _metrics_collection_loop
    \/ TakePacket
    \/ LpushPacket
    \/ LtrimPacket
    \/ TakeMetrics
    \/ LpushMetrics
    \/ LtrimMetrics
    \/ SPStart
    \/ _get_recent_packets
    \/ _get_recent_metrics
    \/ CheckPacket
    \/ StoreSetex
    \/ StoreLpushRecent
    \/ StoreLtrimRecent
    \/ StoreLpushThreat
    \/ StoreLtrimThreat
    \/ StreamTick

StreamSpec == SInit /\ [][StreamNext]_vars

\* Scoring on its own: the raw events and model outputs a call may get.
RawPackets ==
    PacketShapes \cup
    { [dst_port |-> 4444, packet_size |-> 2000],
      [dst_port |-> 443, packet_size |-> 512],
      [src_ip |-> <<10, 1, 1, 7>>, dst_ip |-> <<10, 0, 0, 9>>,
       src_port |-> None, dst_port |-> None, protocol |-> 1,
       packet_size |-> 2000],
      [src_ip |-> <<10, 1, 1, 8>>, dst_ip |-> <<72, 16, 0, 1>>,
       src_port |-> 50002, dst_port |-> 23, protocol |-> 6,
       packet_size |-> 1600, http_data |-> "login"] }

\* The metrics records a call may get: the collected ones, and one whose
\* cpu_percent is null.
RawMetrics ==
    MetricsShapes \cup
    { [cpu_percent |-> None, memory_percent |-> 50,
       active_connections |-> 10],
      [cpu_percent |-> 50, memory_percent |-> 50, active_connections |-> 10,
       network_io |-> [bytes_sent |-> 9000, bytes_recv |-> 2999,
                       packets_sent |-> 40, packets_recv |-> 9]] }

ScoreLevels == {0, 20, 50, 70, 90}
ScoreOutputs == ScoreLevels \X ScoreLevels

\* One call of detect_threat, with the severity the stream processor
\* derives from its result, and one call of analyze_packet_threat.
ScoreEvent ==
    /\ \E packet \in RawPackets, metrics \in RawMetrics,
          mode \in DetectorModes, out \in ScoreOutputs :
          LET result == detect_threat(mode, settings, packet, metrics, out)
              network == extract_network_features(packet)
              system == extract_system_features(metrics)
          IN scored' = [mode |-> mode,
                        packet |-> packet,
                        metrics |-> metrics,
                        network |-> network,
                        system |-> system,
                        width |-> feature_vector(network, system),
                        features |-> all_features(network, system),
                        result |-> result,
                        severity |-> _determine_severity(result),
                        analysis |-> analyze_packet_threat(packet)]
    /\ UNCHANGED <<now, settings, amVars, storeVars, spVars, nmVars,
                   notified, threat_stats, agg, lifeVars, writes, seen>>

DetectInit ==
    /\ now = 0
    /\ settings \in SettingsChoices
    /\ AMInit
    /\ StreamInit
    /\ FreshStore

DetectNext == ScoreEvent

DetectSpec == DetectInit /\ [][DetectNext]_vars

\* The consumers of the store: the stream processor with its subscribers
\* and its aggregator, within one instant, started on a store in which an
\* earlier run of the producer has left two packets and one metrics record.
LeftByProducer ==
    /\ \E older \in PacketShapes, newer \in PacketShapes :
          recent_packets = LPush(LPush(EmptyList, Stamp(older, 0)),
                                 Stamp(newer, 0))
    /\ \E m \in MetricsShapes :
          recent_metrics = LPush(EmptyList, Stamp(m, 0))
    /\ recent_events = EmptyList
    /\ threat_events = EmptyList
    /\ processed_keys = <<>>

ConsumerInit ==
    /\ now = 0
    /\ settings = DefaultSettings
    /\ AMInit
    /\ StreamInit
    /\ LeftByProducer

ConsumerNext ==
    \/ SPStart
    \/ add_callback
    \/ _get_recent_packets
    \/ _get_recent_metrics
    \/ CheckPacket
    \/ StoreSetex
    \/ StoreLpushRecent
    \/ StoreLtrimRecent
    \/ StoreLpushThreat
    \/ StoreLtrimThreat
    \/ AggRead
    \/ AggWrite

ConsumerSpec == ConsumerInit /\ [][ConsumerNext]_vars

\* The system main.py assembles: lifespan starts the network monitor, the
\* stream processor and the alert manager, in this order, and registers no
\* callback; nothing in the repository calls create_alert, so the alert
\* loop only ever times out on its empty queue.
MainInit ==
    /\ now = 0
    /\ settings = DefaultSettings
    /\ AMInit
    /\ StreamInit
    /\ FreshStore

lifespan ==
    \/ NMStart
    \/ nm_running /\ SPStart
    \/ sp_running /\ AMStart

MainNext ==
    \/ lifespan
    \/ _process_packet
    \/ _metrics_collection_loop
    \/ TakePacket
    \/ LpushPacket
    \/ LtrimPacket
    \/ TakeMetrics
    \/ LpushMetrics
    \/ LtrimMetrics
    \/ _get_recent_packets
    \/ _get_recent_metrics
    \/ CheckPacket
    \/ StoreSetex
    \/ StoreLpushRecent
    \/ StoreLtrimRecent
    \/ StoreLpushThreat
    \/ StoreLtrimThreat
    \/ AlertLoopIdle
    \/ _cleanup_loop
    \/ StreamTick

MainSpec == MainInit /\ [][MainNext]_vars

\* The event loop keeps running the tasks that can take a step.
MainFairSpec == MainSpec /\ WF_vars(MainNext)

\* component.is_running(): each class defines a method is_running, and
\* each __init__ sets the instance attribute self.is_running = False.  The
\* attribute lookup finds the instance attribute, a bool, before the
\* function of the class, and calling a bool raises TypeError, whatever
\* the flag is.
is_running(flag) ==
    IF flag \in BOOLEAN
    THEN [raised |-> "TypeError"]
    ELSE [raised |-> "none", value |-> flag]

\* GET /health: the three calls are made in the handler without a try, so
\* the first that raises makes the response a 500.
health_check ==
    LET monitor == is_running(nm_running)
        processor == is_running(sp_running)
        manager == is_running(am_running)
    IN IF \E call \in {monitor, processor, manager} : call.raised # "none"
       THEN [status |-> 500]
       ELSE [status |-> 200,
             components |-> [network_monitor |-> monitor.value,
                             stream_processor |-> processor.value,
                             alert_manager |-> manager.value]]

\* The store stops answering, and answers again.
StoreGoesDown ==
    /\ redis = "up"
    /\ redis' = "down"
    /\ UNCHANGED <<now, settings, amVars, storeVars, spVars, nmVars, notified,
                   threat_stats, agg, scored, tasks, life, writes, seen>>

StoreComesBack ==
    /\ redis = "down"
    /\ redis' = "up"
    /\ UNCHANGED <<now, settings, amVars, storeVars, spVars, nmVars, notified,
                   threat_stats, agg, scored, tasks, life, writes, seen>>

\* The application main.py would assemble with create_alert registered
\* as the callback, after an earlier run of the producer that left a
\* packet to port 4444, a packet to port 443 and a metrics record of a
\* loaded host.
LifeInit ==
    /\ now = 0
    /\ settings = DefaultSettings
    /\ AMInit
    /\ StreamInit
    /\ LeftByProducer
    /\ recent_packets.items[1].dst_port = 443
    /\ recent_packets.items[2].dst_port = 4444
    /\ recent_metrics.items[1].cpu_percent = 95

startup ==
    \/ NMStart
    \/ nm_running /\ SPStart
    \/ sp_running /\ AMStart

\* The steps of _main_processing_loop and of _data_aggregation_loop: the
\* task that can take a step takes it, whether its store command is
\* answered or raises.
MainLoopStep ==
    \/ _get_recent_packets
    \/ _get_recent_metrics
    \/ CheckPacket
    \/ StoreSetex
    \/ StoreLpushRecent
    \/ StoreLtrimRecent
    \/ StoreLpushThreat
    \/ StoreLtrimThreat
    \/ StoreRaised

AggregationStep ==
    \/ AggRead
    \/ AggWrite

\* The stream processor and the alert manager against a store that may
\* stop answering at any time: the start() calls of lifespan, a start()
\* that raised being tried again, the main loop and the alert loop.
FaultNext ==
    \/ callbacks = <<>> /\ add_callback /\ callbacks' = <<"create_alert">>
    \/ startup
    \/ stats.events_processed < MaxEvents /\ _get_recent_packets
    \/ _get_recent_metrics
    \/ CheckPacket
    \/ StoreSetex
    \/ StoreLpushRecent
    \/ StoreLtrimRecent
    \/ StoreLpushThreat
    \/ StoreLtrimThreat
    \/ StoreRaised
    \/ ProcessAlert
    \/ AlertLoopIdle
    \/ StoreGoesDown
    \/ StoreComesBack

FaultSpec == LifeInit /\ [][FaultNext]_vars

\* The life of the application: lifespan starts the three components in
\* order and after its yield stops them in the same order; the store
\* answers and the models are fitted.
shutdown ==
    \/ am_running /\ NMStop
    \/ life.nm = "stopped" /\ SPStop
    \/ life.sp = "stopped" /\ AMStop

LoopExit ==
    \/ MainLoopExit
    \/ AggregationLoopExit
    \/ PerformanceLoopExit
    \/ AlertLoopExit
    \/ CleanupLoopExit

\* The hour of the cleanup loop's sleep, passing after the shutdown.
HourPasses == life.am = "stopped" /\ StreamTick

LifeNext ==
    \/ callbacks = <<>> /\ add_callback /\ callbacks' = <<"create_alert">>
    \/ life.nm = "new" /\ NMStart
    \/ nm_running /\ life.sp = "new" /\ SPStart /\ detector' = "heuristic"
    \/ sp_running /\ life.am = "new" /\ AMStart
    \/ shutdown
    \/ _get_recent_packets
    \/ _get_recent_metrics
    \/ CheckPacket
    \/ StoreSetex
    \/ StoreLpushRecent
    \/ StoreLtrimRecent
    \/ StoreLpushThreat
    \/ StoreLtrimThreat
    \/ AggRead
    \/ AggWrite
    \/ _performance_monitoring_loop
    \/ ProcessAlert
    \/ AlertLoopIdle
    \/ _cleanup_loop
    \/ LoopExit
    \/ HourPasses

\* The event loop runs every task that can take a step, and time passes.
LifeSpec ==
    /\ LifeInit
    /\ [][LifeNext]_vars
    /\ WF_vars(MainLoopStep)
    /\ WF_vars(AggregationStep)
    /\ WF_vars(ProcessAlert)
    /\ WF_vars(MainLoopExit)
    /\ WF_vars(AggregationLoopExit)
    /\ WF_vars(PerformanceLoopExit)
    /\ WF_vars(AlertLoopExit)
    /\ WF_vars(CleanupLoopExit)
    /\ WF_vars(HourPasses)

\* The manager over time with a rule added before start-up whose cooldown
\* is longer than the hour the cleanup loop keeps an entry.
LongCooldownRule ==
    [name |-> "Memory Daily", condition |-> {"memory_percent > 90"},
     severity |-> "high", channels |-> <<"log">>,
     cooldown |-> 7200, enabled |-> TRUE]

AddLongRule ==
    /\ Configuring
    /\ created + ruleOps < MaxCalls
    /\ \A i \in 1..Len(alert_rules) :
          alert_rules[i].name # LongCooldownRule.name
    /\ alert_rules' = Append(alert_rules, LongCooldownRule)
    /\ ruleOps' = ruleOps + 1
    /\ UNCHANGED <<streamVars, now, settings, am_running, alert_queue,
                   sent_alerts, nextCleanup, created, history, last>>

SweepEvents == {e \in AlertEvents : e.timestamp \in {11, 12}}

SweepNext ==
    \/ AddLongRule
    \/ AMStart
    \/ \E event \in SweepEvents : CallCreateAlert(event)
    \/ ProcessAlert
    \/ _cleanup_loop
    \/ AlertTick

SweepSpec == Init /\ [][SweepNext]_vars

\* Ingestion of a burst: both components run, the monitor has captured a
\* burst of packets that wait in its queue - one packet, as many as a poll
\* reads, or one more than that - and has stored one metrics record; the
\* data loop of the monitor stores the packets, the stream processor polls.
BurstSize == PacketWindow + 1

BurstPacket(i) ==
    Stamp(CHOOSE shape \in PacketShapes : shape.dst_port = 4444, i)

Burst(n) == [i \in 1..n |-> BurstPacket(i)]

IngestInit ==
    /\ now = BurstSize
    /\ settings = DefaultSettings
    /\ AMInit
    /\ sp_running = TRUE
    /\ detector = "heuristic"
    /\ callbacks = <<>>
    /\ stats = [events_processed |-> 0, threats_detected |-> 0]
    /\ sp_pc = "idle"
    /\ sp_batch = <<>>
    /\ sp_metrics = NoMetrics
    /\ sp_event = NoEvent
    /\ nm_running = TRUE
    /\ \E n \in {1, PacketWindow, BurstSize} : packet_queue = Burst(n)
    /\ metrics_queue = <<>>
    /\ nm_pc = "idle"
    /\ nm_item = NoEvent
    /\ captured = Len(packet_queue)
    /\ collected = 1
    /\ notified = NoNotify
    /\ threat_stats = NoKey
    /\ agg = NoAgg
    /\ scored = NoScore
    /\ redis = "up"
    /\ tasks = SetToBag(NMLoops \cup SPLoops)
    /\ life = [sp |-> "started", nm |-> "started", am |-> "new"]
    /\ writes = <<>>
    /\ seen = <<>>
    /\ recent_packets = EmptyList
    /\ \E m \in MetricsShapes :
          /\ m.cpu_percent = 95
          /\ recent_metrics = LPush(EmptyList, Stamp(m, 0))
    /\ recent_events = EmptyList
    /\ threat_events = EmptyList
    /\ processed_keys = <<>>

\* One step of _data_processing_loop on a packet.
DataLoopStep ==
    \/ TakePacket
    \/ LpushPacket
    \/ LtrimPacket

\* The burst is stored between two polls: the main loop of the stream
\* processor sleeps until the monitor's queue is empty again.
IngestNext ==
    \/ TakePacket
    \/ LpushPacket
    \/ LtrimPacket
    \/ packet_queue = <<>> /\ nm_pc = "idle" /\ _get_recent_packets
    \/ _get_recent_metrics
    \/ CheckPacket
    \/ StoreSetex
    \/ StoreLpushRecent
    \/ StoreLtrimRecent
    \/ StoreLpushThreat
    \/ StoreLtrimThreat

\* Both loops keep taking their steps.
IngestSpec ==
    /\ IngestInit
    /\ [][IngestNext]_vars
    /\ WF_vars(IngestNext)

(***************************************************************************)
(* Claims                                                                  *)
(***************************************************************************)
Ran == last # NoRun

AnyFailed(tries) == \E i \in 1..Len(tries) : tries[i].outcome = "failed"
AnyDelivered(tries) == \E i \in 1..Len(tries) : tries[i].outcome = "delivered"

\* C3: under an enabled matched rule with a cooldown of 300 s, an alert
\* processed less than 300 s after a dispatch of the same alert id is not
\* dispatched, and one processed when every earlier dispatch of its id is
\* at least 301 s old is dispatched.
C3_Cooldown ==
    (Ran /\ last.enabled /\ last.cooldown = 300) =>
        /\ (\E t \in last.earlier : last.time - t < 300) => ~last.dispatched
        /\ (\A t \in last.earlier : last.time - t >= 301) => last.dispatched

\* Three alerts of one id: dispatched at 0, suppressed at 299, dispatched
\* again at 301.
C3_Witness ==
    /\ Ran /\ last.cooldown = 300 /\ last.dispatched
    /\ \E id \in {h.id : h \in history} :
          {[id |-> id, time |-> 0, sent |-> TRUE],
           [id |-> id, time |-> 299, sent |-> FALSE],
           [id |-> id, time |-> 301, sent |-> TRUE]} \subseteq history

\* C4: an alert dispatched through a channel that fails is not marked sent;
\* its retry_count goes up by one per attempt, to at most 3, and it is put
\* back on the queue while retry_count is below 3.
C4_RetryCeiling ==
    (Ran /\ AnyFailed(last.attempts)) =>
        /\ ~last.alert.sent
        /\ last.alert.retry_count \in 1..3
        /\ last.requeued <=> last.alert.retry_count < 3

\* C5: an alert is marked sent, and its id recorded in sent_alerts at the
\* time of the run, only when its delivery succeeded: some channel
\* delivered and none failed.
C5_SentOnlyOnSuccess ==
    (Ran /\ (last.alert.sent
              \/ (last.alert.id \in DOMAIN sent_alerts
                     /\ sent_alerts[last.alert.id] = last.time
                     /\ last.dispatched))) =>
        (AnyDelivered(last.attempts) /\ ~AnyFailed(last.attempts))

\* First enabled rule, in declaration order, whose condition holds (0: none).
RECURSIVE FirstEnabledMatch(_, _, _)
FirstEnabledMatch(rules, alert, i) ==
    IF i > Len(rules) THEN 0
    ELSE IF rules[i].enabled /\ _evaluate_condition(rules[i].condition, alert)
         THEN i
    ELSE FirstEnabledMatch(rules, alert, i + 1)

\* C7: the rule applied to an alert is the first enabled rule whose
\* condition is true for it: a disabled rule before it does not keep the
\* alert from being dispatched through that rule's channels.
C7_FirstEnabledRule ==
    Ran =>
        LET r == FirstEnabledMatch(alert_rules, last.alert, 1) IN
        /\ last.dispatched =>
               (r # 0 /\ last.channels = alert_rules[r].channels
                      /\ last.cooldown = alert_rules[r].cooldown)
        /\ (r # 0 /\ last.earlier = {}) => last.dispatched

\* C8: processing an alert for which no rule's condition is true attempts
\* no delivery, leaves its sent flag false and sent_alerts unchanged, and
\* takes it off the queue for good.
C8_NoRuleDiscarded ==
    [][(/\ alert_queue # <<>>
        /\ Len(alert_queue') < Len(alert_queue)
        /\ \A i \in 1..Len(alert_rules) :
               ~_evaluate_condition(alert_rules[i].condition, Head(alert_queue)))
       => (/\ last'.alert.id = Head(alert_queue).id
           /\ last'.attempts = <<>>
           /\ ~last'.dispatched
           /\ ~last'.alert.sent
           /\ ~last'.requeued
           /\ sent_alerts' = sent_alerts
           /\ alert_queue' = Tail(alert_queue))]_vars

C8_Witness ==
    /\ Ran /\ last.rule = 0 /\ ~last.dispatched
    /\ last.alert.memory_percent = 50 /\ last.alert.threat_score = 30

\* C9: a dispatch attempts delivery on every channel of the matched rule,
\* in order, whatever the outcome on the channels before.
C9_EveryChannelAttempted ==
    (Ran /\ last.dispatched) =>
        /\ Len(last.attempts) = Len(last.channels)
        /\ \A i \in 1..Len(last.channels) :
               last.attempts[i].channel = last.channels[i]

\* The webhook failed and the log channel after it was still attempted.
C9_Witness ==
    /\ Ran /\ last.dispatched /\ Len(last.attempts) = 2
    /\ last.attempts[1].channel = "webhook"
    /\ last.attempts[1].outcome = "failed"
    /\ last.attempts[2].channel = "log"
    /\ last.attempts[2].outcome = "delivered"

\* C10: a webhook response is a successful delivery exactly when its HTTP
\* status is in the 2xx range.
C10_Webhook2xx ==
    Ran =>
        \A i \in 1..Len(last.attempts) :
            (last.attempts[i].channel = "webhook" /\ settings.alert_webhook_url
                 /\ last.attempts[i].status # 0) =>
                (last.attempts[i].outcome = "delivered"
                     <=> last.attempts[i].status \in 200..299)


WritesOf(key, id) ==
    {i \in 1..Len(writes) : writes[i].key = key /\ writes[i].id = id}

\* The stream processor is between EXISTS of this packet and the write.
InFlight(key, id) ==
    /\ sp_pc \in (IF key = "processed" THEN {"setex"}
                 ELSE {"setex", "lpush_recent"})
    /\ packet_id(sp_event.packet_data) = id

C2_CappedLists ==
    /\ LLen(recent_events) <= RecentEventsCap
    /\ LLen(threat_events) <= ThreatEventsCap
    /\ LLen(recent_packets) <= RecentPacketsCap
    /\ LLen(recent_metrics) <= RecentMetricsCap

\* C6: in the system main.py assembles, a threat the stream processor has
\* detected leads to an alert on the alert manager's queue.
C6_ThreatLeadsToAlert ==
    (stats.threats_detected > 0) ~> (alert_queue # <<>> \/ created > 0 \/ Ran)

\* The step that ends _process_single_event.
EventFinished ==
    /\ sp_pc \in {"ltrim_recent", "ltrim_threat"}
    /\ sp_pc' \in {"idle", "exists"}

\* C11: when a packet has been processed, every registered callback is
\* called once with the ProcessedEvent, in registration order, whether or
\* not a callback before it raised, an alert callback after a raising one
\* still enqueues its alert, and the loop goes on to the next packet.
C11_SubscribersNotified ==
    [][EventFinished =>
        /\ notified'.event = sp_event
        /\ Len(notified'.invoked) = Len(callbacks)
        /\ \A i \in 1..Len(callbacks) :
               notified'.invoked[i].callback = callbacks[i]
        /\ (sp_event.threat_result.is_threat
               /\ \E i \in 1..Len(callbacks) : callbacks[i] = "create_alert")
              => Len(alert_queue') = Len(alert_queue) + 1
        /\ sp_batch' = Tail(sp_batch)
        /\ sp_pc' = IF Tail(sp_batch) = <<>> THEN "idle" ELSE "exists"]_vars

\* The second packet of a batch, a threat, processed with a raising
\* subscriber registered before the alert callback.
C11_Witness ==
    /\ stats.events_processed = 2
    /\ Len(notified.invoked) = 2
    /\ notified.invoked[1].outcome = "raised"
    /\ notified.invoked[2].callback = "create_alert"
    /\ notified.event.threat_result.is_threat
    /\ alert_queue # <<>>

\* Packet a was pushed onto recent_packets before packet b.
PushedBefore(a, b) ==
    \E p, q \in 1..Len(recent_packets.items) :
        /\ p > q
        /\ packet_id(recent_packets.items[p]) = a
        /\ packet_id(recent_packets.items[q]) = b

\* C12: packets are persisted in the order the producer pushed them: no
\* packet is persisted after a packet that was pushed after it.
C12_ArrivalOrder ==
    \A i, j \in 1..Len(writes) :
        (i < j /\ writes[i].key = "processed" /\ writes[j].key = "processed"
               /\ writes[i].id # writes[j].id)
            => ~(PushedBefore(writes[j].id, writes[i].id)
                    /\ ~PushedBefore(writes[i].id, writes[j].id))

\* C13: the severity of an event is low when its result is no threat,
\* else medium below 0.5, high below 0.8, critical from 0.8 on.
C13_SeverityOfResult ==
    scored # NoScore =>
        scored.severity =
            (IF ~scored.result.is_threat THEN "low"
             ELSE IF scored.result.threat_score < 50 THEN "medium"
             ELSE IF scored.result.threat_score < 80 THEN "high"
             ELSE "critical")

\* A threat below 0.5, under a threshold configured below it: medium.
C13_Witness ==
    /\ scored # NoScore
    /\ scored.result.is_threat
    /\ scored.result.threat_score < 50
    /\ scored.severity = "medium"

\* C14: every result of detect_threat, the fallback included, is a threat
\* exactly when its score is above the configured threshold.
C14_ThreatIffAboveThreshold ==
    scored # NoScore =>
        (scored.result.is_threat
            <=> scored.result.threat_score > settings.threat_threshold)

\* A score at the threshold, on the normal path: no threat.
C14_Witness ==
    /\ scored # NoScore
    /\ scored.mode = "trained"
    /\ scored.network.ok
    /\ scored.result.threat_score = settings.threat_threshold
    /\ ~scored.result.is_threat

\* C15: the threat_type of every result of detect_threat is the band of
\* its score.
C15_TypeOfScoreBand ==
    scored # NoScore =>
        scored.result.threat_type =
            (IF scored.result.threat_score < 30 THEN "normal"
             ELSE IF scored.result.threat_score < 60 THEN "suspicious"
             ELSE IF scored.result.threat_score < 80 THEN "potential_threat"
             ELSE "high_threat")

\* C16: with no trained model, an event to port 4444 of size 2000 scores
\* at least 0.8, is a high_threat and is a threat.
C16_BackdoorPortScenario ==
    (/\ scored # NoScore
     /\ scored.mode # "trained"
     /\ Get(scored.packet, "dst_port", 0) = 4444
     /\ Get(scored.packet, "packet_size", 0) = 2000) =>
        /\ scored.result.threat_score >= 80
        /\ scored.result.threat_type = "high_threat"
        /\ scored.result.is_threat

\* C17: with no trained model and the default threshold, an event to port
\* 443 of size 512 with no system indicator scores below 0.3, is normal and
\* is no threat.
C17_NormalTrafficScenario ==
    (/\ scored # NoScore
     /\ scored.mode # "trained"
     /\ settings.threat_threshold = 70
     /\ Get(scored.packet, "dst_port", 0) = 443
     /\ Get(scored.packet, "packet_size", 0) = 512
     /\ scored.metrics.cpu_percent <= 80
     /\ scored.metrics.memory_percent <= 90
     /\ scored.metrics.active_connections <= 100) =>
        /\ scored.result.threat_score < 30
        /\ scored.result.threat_type = "normal"
        /\ ~scored.result.is_threat

\* C18: after an aggregation run that found no threat event, threat_stats
\* holds a snapshot with every severity count 0 and total_threats 0.
C18_EmptyAggregation ==
    (agg.ran /\ agg.empty /\ agg.pc = "idle") =>
        /\ threat_stats # NoKey
        /\ threat_stats.value.total_threats = 0
        /\ \A sv \in Severities : threat_stats.value.severity_counts[sv] = 0

\* GET processed:<id> at time t.
GetProcessed(keys, id, t) ==
    IF Exists(keys, id, t) THEN keys[id].value ELSE NoEvent

\* C19: the record read back from processed:<id> within its TTL has every
\* field of the ProcessedEvent that was persisted, with the same value.
C19_RoundTrip ==
    sp_pc \in {"lpush_recent", "ltrim_recent", "lpush_threat", "ltrim_threat"}
        => GetProcessed(processed_keys, packet_id(sp_event.packet_data), now)
               = sp_event

\* C20: a packet without ports has only its port features set to 0: its
\* size, protocol flags and address encodings keep their values.
C20_OnlyFailedFeatureZero ==
    (scored # NoScore /\ Get(scored.packet, "src_port", 0) = None) =>
        /\ scored.network.src_port = 0
        /\ scored.network.dst_port = 0
        /\ scored.network.packet_size = scored.packet.packet_size
        /\ scored.network.is_icmp = (IF scored.packet.protocol = 1 THEN 1 ELSE 0)
        /\ scored.network.src_ip_numeric = _ip_to_numeric(scored.packet.src_ip)
        /\ scored.network.dst_ip_numeric = _ip_to_numeric(scored.packet.dst_ip)

\* C21: the feature vector detect_threat hands to the models has the
\* declared width of 20 columns for every input, whichever extraction
\* failed.
C21_FixedVectorWidth ==
    scored # NoScore => scored.width = InputWidth

\* C22: once stop() has set a component's flag to false, its loops start
\* no new iteration - no poll, no aggregation run, no alert taken, no
\* cleanup sweep - and each of them ends: the loops of the stream
\* processor when their iteration in flight is over, the alert loop at
\* once, the cleanup loop when its sleep is over.
C22_LoopsEndAfterStop ==
    /\ [][(~sp_running =>
              /\ (sp_pc = "idle" => sp_pc' = "idle")
              /\ (agg.pc = "idle" => agg' = agg))
          /\ (~am_running =>
              /\ history' = history
              /\ last' = last
              /\ sent_alerts' = sent_alerts
              /\ Len(alert_queue') >= Len(alert_queue))]_vars
    /\ (life.sp = "stopped") ~> (BagToSet(tasks) \cap SPLoops = {})
    /\ (life.am = "stopped") ~> (~BagIn("alert_processing", tasks))
    /\ (life.am = "stopped" /\ now >= nextCleanup) ~> (~BagIn("cleanup", tasks))

\* The stream processor was stopped in the middle of a batch, and its
\* three loops have ended; the alert manager was stopped with an alert
\* still queued, and its two loops have ended.
C22_Witness ==
    /\ life.sp = "stopped"
    /\ life.am = "stopped"
    /\ BagToSet(tasks) \cap (SPLoops \cup AMLoops) = {}
    /\ stats.events_processed > 0
    /\ alert_queue # <<>>

\* C23: two alerts created from the same event carry the same id, whenever
\* each was created.
C23_IdOfEventAlone ==
    \A i, j \in 1..Len(alert_queue) :
        (/\ alert_queue[i].id[2] = alert_queue[j].id[2]
         /\ alert_queue[i].threat_score = alert_queue[j].threat_score
         /\ alert_queue[i].cpu_percent = alert_queue[j].cpu_percent
         /\ alert_queue[i].memory_percent = alert_queue[j].memory_percent)
            => alert_queue[i].id = alert_queue[j].id

\* C24: every alert on the queue is unsent with a retry_count of at most
\* 3, one with a retry_count above 0 has a failed run behind it and is
\* below 3; the alert a run of _process_alert leaves has a retry_count of
\* at most 3 and is not put back when it was sent.
C24_RetryStateMachine ==
    /\ \A i \in 1..Len(alert_queue) :
          /\ alert_queue[i].retry_count <= 3
          /\ ~alert_queue[i].sent
          /\ alert_queue[i].retry_count > 0 =>
                (/\ alert_queue[i].retry_count < 3
                 /\ \E h \in history : h.id = alert_queue[i].id /\ ~h.sent)
    /\ Ran => /\ last.alert.retry_count <= 3
              /\ last.alert.sent => ~last.requeued

\* An alert was sent and has left the queue, on which another alert of
\* the same id still waits.
C24_Witness ==
    /\ Ran
    /\ last.alert.sent
    /\ ~last.requeued
    /\ \E i \in 1..Len(alert_queue) :
          /\ alert_queue[i].id = last.alert.id
          /\ ~alert_queue[i].sent

C27_FailureStaysAtItem ==
    [][/\ (/\ sp_pc \in StorePcs
           /\ redis = "down"
           /\ (sp_pc' # sp_pc \/ sp_batch' # sp_batch))
             => /\ sp_batch' = Tail(sp_batch)
                /\ sp_pc' = IF Tail(sp_batch) = <<>> THEN "idle" ELSE "exists"
                /\ stats'.events_processed = stats.events_processed + 1
                /\ notified'.event = sp_event
                /\ sp_running' = sp_running
                /\ BagIn("main_processing", tasks')
       /\ last' # last
             => /\ alert_queue' = Tail(alert_queue)
                /\ am_running'
                /\ BagIn("alert_processing", tasks')]_vars

\* One poll of two packets: SETEX of the first raised, so that it has no
\* processed key, and the second was processed and stored after it.
C27_Witness ==
    /\ stats.events_processed = 2
    /\ notified.event # NoEvent
    /\ WritesOf("processed", packet_id(notified.event.packet_data)) # {}
    /\ \E id \in DOMAIN seen :
          /\ id # packet_id(notified.event.packet_data)
          /\ seen[id].times = 1
          /\ WritesOf("processed", id) = {}

\* C28: a start() of the stream processor or of the network monitor made
\* while the store does not answer raises, leaves is_running false and
\* creates no loop.
C28_StartRaisesWithoutStore ==
    [][/\ (redis = "down" /\ life'.sp # life.sp)
             => /\ life'.sp = "raised"
                /\ ~sp_running'
                /\ tasks' = tasks
       /\ (redis = "down" /\ life'.nm # life.nm)
             => /\ life'.nm = "raised"
                /\ ~nm_running'
                /\ tasks' = tasks]_vars

\* The network monitor has started, the store went down, and start() of
\* the stream processor raised: the monitor's loops are the only ones.
C28_Witness ==
    /\ life.nm = "started"
    /\ life.sp = "raised"
    /\ ~sp_running
    /\ tasks = SetToBag(NMLoops)

\* C29: a sweep of the cleanup loop leaves no entry of sent_alerts sent
\* more than 3600 s ago, and leaves every entry sent at most 3600 s ago as
\* it was.
C29_CleanupSweep ==
    [][(am_running /\ nextCleanup' # nextCleanup) =>
          /\ \A id \in DOMAIN sent_alerts' :
                now - sent_alerts'[id] <= 3600
          /\ \A id \in DOMAIN sent_alerts :
                now - sent_alerts[id] <= 3600 =>
                    (/\ id \in DOMAIN sent_alerts'
                     /\ sent_alerts'[id] = sent_alerts[id])]_vars

\* The sweep made at 3600 has kept the entry of an alert sent at 0.
C29_Witness ==
    /\ now = 3600
    /\ nextCleanup = 7200
    /\ \E id \in DOMAIN sent_alerts : sent_alerts[id] = 0

\* C30: a detector with no trained state - is_trained false and no model
\* ever fitted - answers through the heuristic path: threat_score is
\* (h + 0.5) / 2 with h the capped sum of the indicator weights, and the
\* result is not the one of the error fallback.
C30_UntrainedIsHeuristic ==
    (scored # NoScore /\ scored.mode = "unfitted") =>
        /\ scored.result.threat_score =
              (_simple_threat_detection(scored.network, scored.system) + 50)
                  \div 2
        /\ scored.result # FallbackResult

\* C31: the feature map detect_threat scores holds both ratios with their
\* own values, the packet-size ratio packet_size / 1500 and the ratio
\* packets_sent / (packets_recv + 1), when both extractions succeeded.
C31_BothRatiosKept ==
    (scored # NoScore /\ scored.network.ok /\ scored.system.ok) =>
        \E size_ratio, send_ratio \in DOMAIN scored.features :
            /\ size_ratio # send_ratio
            /\ scored.features[size_ratio] =
                  (Get(scored.packet, "packet_size", 0) * 100) \div 1500
            /\ scored.features[send_ratio] =
                  (scored.system.packets_sent * 100)
                      \div (scored.system.packets_recv + 1)

\* C32: the in-process queues are bounded: whatever the producers do, the
\* length of alert_queue, packet_queue and metrics_queue stays below a
\* capacity smaller than the number of items the producers put.
C32_QueuesBounded ==
    /\ Len(alert_queue) < MaxCalls
    /\ Len(packet_queue) < MaxCalls
    /\ Len(metrics_queue) < MaxCalls

\* C33: the condition of the default rule "System Resource Alert" holds
\* for an alert exactly when the metrics of its event have cpu_percent
\* above 90 or memory_percent above 90.
C33_SystemRuleEitherMetric ==
    \A i \in 1..Len(alert_queue) :
        _evaluate_condition(SystemRule.condition, alert_queue[i])
            <=> (\/ alert_queue[i].cpu_percent > 90
                 \/ alert_queue[i].memory_percent > 90)

\* C34: is_running() of each component returns its flag - true between a
\* successful start() and stop(), false otherwise - so that the health
\* endpoint answers with the three flags and does not raise.
C34_IsRunningReports ==
    health_check =
        [status |-> 200,
         components |-> [network_monitor |-> nm_running,
                         stream_processor |-> sp_running,
                         alert_manager |-> am_running]]

\* C35: whatever start() and stop() calls were made, at most one instance
\* of each background loop of the alert manager and of the stream
\* processor is alive.
C35_OneLoopEach ==
    \A loop \in AMLoops \cup SPLoops : CopiesIn(loop, tasks) <= 1

\* C36: every packet pushed onto recent_packets is eventually processed by
\* the stream processor - the store answers, the processor runs, a metrics
\* record exists - however many packets the producer pushes between two
\* polls.
C36_EveryPacketProcessed ==
    \A i \in 1..BurstSize :
        (\E k \in 1..Len(recent_packets.items) :
            recent_packets.items[k] = BurstPacket(i))
        ~> (packet_id(BurstPacket(i)) \in DOMAIN processed_keys)

\* C37: an alert that matches one of the three default threat-score rules
\* has the severity of the rule it matches, at the boundary scores too.
C37_SeverityOfMatchedRule ==
    \A i \in 1..Len(alert_queue) :
        LET r == _find_matching_rule(_initialize_alert_rules, alert_queue[i])
        IN r \in 1..3 =>
              alert_queue[i].severity = _initialize_alert_rules[r].severity

\* C38: persistence of an event is all or nothing: once
\* _store_processed_event has returned, also after a store command failed,
\* processed:<id> exists exactly when the event's record was pushed to
\* recent_events and, for a threat, to threat_events.
C38_AllOrNothing ==
    notified.event # NoEvent =>
        LET id == packet_id(notified.event.packet_data) IN
        id \in DOMAIN processed_keys
            <=> /\ WritesOf("recent_events", id) # {}
                /\ notified.event.threat_result.is_threat
                      => WritesOf("threat_events", id) # {}

\* C39: the cleanup sweep removes no entry of sent_alerts that is still
\* inside the cooldown of the rule matched by an alert of that id, and no
\* alert is dispatched within the cooldown of its rule after an earlier
\* dispatch of the same id, whatever rules were added.
C39_SweepKeepsCooldown ==
    [][/\ (am_running /\ nextCleanup' # nextCleanup) =>
             \A id \in DOMAIN sent_alerts \ DOMAIN sent_alerts' :
                 \A i \in 1..Len(alert_queue) :
                     LET r == _find_matching_rule(alert_rules, alert_queue[i])
                     IN (alert_queue[i].id = id /\ r # 0) =>
                            now - sent_alerts[id] >= alert_rules[r].cooldown
       /\ (last' # last /\ last'.dispatched) =>
             \A t \in last'.earlier : now - t >= last'.cooldown]_vars

\* C40: between two events, events_processed is the number of events
\* whose record was persisted to the store, and threats_detected the
\* number of those that are threats: an event whose persistence failed is
\* not counted.
C40_CountersArePersisted ==
    sp_pc \notin StorePcs =>
        /\ stats.events_processed =
              Cardinality({i \in 1..Len(writes) :
                              writes[i].key = "recent_events"})
        /\ stats.threats_detected =
              Cardinality({i \in 1..Len(writes) :
                              writes[i].key = "threat_events"})

====
